---- MODULE Spec2Model ----
(***************************************************************************)
(* The order simulation engine of fxTrading: Order (order.py), Account     *)
(* (account.py) and TradingSystem (trading_system.py).                     *)
(*                                                                         *)
(* Decimal prices carry three decimals in the data and the tests; they are *)
(* integers counting thousandths here (148.215 is 148215).  Money (pnl,    *)
(* balance, commission) is price * quantity, so it counts thousandths of a *)
(* currency unit as well (100 is 100000).  Quantities are plain integers.  *)
(*                                                                         *)
(* An Optional value is the empty tuple (Python None) or a one-element     *)
(* tuple holding the value.                                                *)
(***************************************************************************)
EXTENDS Integers, Sequences, FiniteSets, TLC

VARIABLES
    market_data,    \* TradingSystem.market_data: the bars, sorted by timestamp
    orders,         \* TradingSystem.orders: the registry, in insertion order
    balance,        \* Account.balance
    account_file,   \* the content of Account.account_file (None: no file)
    tasks,          \* ids of the orders whose scan task is created and has not run
    opening,        \* history: Account.balance when the constructor returned
    scan_log,       \* history: per scanned order, what its scan task did
    cancelled,      \* history: the ids for which cancel_order has returned True
    issued,         \* history: the ids place_order has returned, in call order
    account_log,    \* history: the number of update_balance calls so far, and
                    \* whether the last _save_account wrote the file (None: no
                    \* save since the account was loaded)
    ret             \* history: the last call of the public interface and its result

vars == <<market_data, orders, balance, account_file, tasks, opening, scan_log,
          cancelled, issued, account_log, ret>>

----------------------------------------------------------------------------
(* Bounds of the model *)

MaxOrders == 2
MaxBars == 2
MaxTime == 2

----------------------------------------------------------------------------
(* Optional values *)

None == <<>>
Some(v) == <<v>>
IsSet(x) == x # None
Val(x) == x[1]
\* Python truthiness of an Optional[Decimal]: None and Decimal('0') are falsy
Truthy(x) == x # None /\ x[1] # 0

----------------------------------------------------------------------------
(* order.py *)

BUY == "BUY"
SELL == "SELL"
OrderType == {BUY, SELL}

PENDING == "PENDING"
EXECUTED == "EXECUTED"
CANCELLED == "CANCELLED"
OrderStatus == {PENDING, EXECUTED, CANCELLED}

SPREAD == 200
COMMISSION == 100000

NewOrder(order_id, timestamp, order_type, price, quantity, take_profit, stop_loss) ==
    [order_id |-> order_id, timestamp |-> timestamp, order_type |-> order_type,
     price |-> price, quantity |-> quantity,
     take_profit |-> take_profit, stop_loss |-> stop_loss,
     status |-> PENDING, executed_price |-> None, executed_time |-> None]

\* the spread left out of the execution price
get_execution_price_no_spread(order, market_price) == market_price

get_execution_price(order, market_price) ==
    IF order.order_type = BUY
    THEN market_price + (SPREAD \div 2)
    ELSE market_price - (SPREAD \div 2)

\* the status check left out of is_executable
is_executable_any_status(order, current_price) ==
    LET execution_price == get_execution_price(order, current_price) IN
    IF order.order_type = BUY
    THEN \/ Truthy(order.take_profit) /\ execution_price >= Val(order.take_profit)
         \/ Truthy(order.stop_loss) /\ execution_price <= Val(order.stop_loss)
    ELSE \/ Truthy(order.take_profit) /\ execution_price <= Val(order.take_profit)
         \/ Truthy(order.stop_loss) /\ execution_price >= Val(order.stop_loss)

\* a level that is not set taken for a level of zero
is_executable_unset_as_zero(order, current_price) ==
    IF order.status # PENDING THEN FALSE
    ELSE LET execution_price == get_execution_price(order, current_price)
             tp == IF order.take_profit = None THEN 0 ELSE Val(order.take_profit)
             sl == IF order.stop_loss = None THEN 0 ELSE Val(order.stop_loss)
         IN IF order.order_type = BUY
            THEN execution_price >= tp \/ execution_price <= sl
            ELSE execution_price <= tp \/ execution_price >= sl

is_executable(order, current_price) ==
    IF order.status # PENDING THEN FALSE
    ELSE LET execution_price == get_execution_price(order, current_price) IN
         IF order.order_type = BUY
         THEN \/ Truthy(order.take_profit) /\ execution_price >= Val(order.take_profit)
              \/ Truthy(order.stop_loss) /\ execution_price <= Val(order.stop_loss)
         ELSE \/ Truthy(order.take_profit) /\ execution_price <= Val(order.take_profit)
              \/ Truthy(order.stop_loss) /\ execution_price >= Val(order.stop_loss)

\* the market price recorded as it comes
execute_raw_price(order, market_price, timestamp) ==
    [order EXCEPT !.executed_price = Some(market_price),
                  !.executed_time = Some(timestamp),
                  !.status = EXECUTED]

execute(order, market_price, timestamp) ==
    [order EXCEPT !.executed_price = Some(get_execution_price(order, market_price)),
                  !.executed_time = Some(timestamp),
                  !.status = EXECUTED]

\* the commission left out of the pnl
calculate_pnl_no_commission(order) ==
    IF ~Truthy(order.executed_price) \/ order.status # EXECUTED THEN None
    ELSE IF order.order_type = BUY
         THEN Some((Val(order.executed_price) - order.price) * order.quantity)
         ELSE Some((order.price - Val(order.executed_price)) * order.quantity)

\* the status check left out of calculate_pnl
calculate_pnl_any_status(order) ==
    IF ~Truthy(order.executed_price) THEN None
    ELSE LET base_pnl ==
                 IF order.order_type = BUY
                 THEN (Val(order.executed_price) - order.price) * order.quantity
                 ELSE (order.price - Val(order.executed_price)) * order.quantity
         IN Some(base_pnl - COMMISSION)

calculate_pnl(order) ==
    IF ~Truthy(order.executed_price) \/ order.status # EXECUTED THEN None
    ELSE LET base_pnl ==
                 IF order.order_type = BUY
                 THEN (Val(order.executed_price) - order.price) * order.quantity
                 ELSE (order.price - Val(order.executed_price)) * order.quantity
         IN Some(base_pnl - COMMISSION)

----------------------------------------------------------------------------
(* account.py *)

DEFAULT_BALANCE == 100000000

DigitChars == <<"0", "1", "2", "3", "4", "5", "6", "7", "8", "9">>

RECURSIVE DigitsOf(_)
DigitsOf(n) ==
    IF n < 10 THEN <<DigitChars[n + 1]>>
    ELSE Append(DigitsOf(n \div 10), DigitChars[(n % 10) + 1])

\* str(Decimal) without the sign
DecimalToStr_unsigned(d) ==
    LET a == IF d < 0 THEN 0 - d ELSE d
        frac == DigitsOf(1000 + (a % 1000))
    IN DigitsOf(a \div 1000) \o <<".">> \o SubSeq(frac, 2, 4)

\* str(Decimal): the sign, the integer digits, and after the point the
\* three decimals that the sum of a balance and a pnl carries
DecimalToStr(d) ==
    LET a == IF d < 0 THEN 0 - d ELSE d
        frac == DigitsOf(1000 + (a % 1000))
    IN (IF d < 0 THEN <<"-">> ELSE <<>>)
         \o DigitsOf(a \div 1000) \o <<".">> \o SubSeq(frac, 2, 4)

DigitValue(c) == CHOOSE v \in 0..9 : DigitChars[v + 1] = c

RECURSIVE NumberOf(_)
NumberOf(digits) ==
    IF digits = <<>> THEN 0
    ELSE 10 * NumberOf(SubSeq(digits, 1, Len(digits) - 1))
           + DigitValue(digits[Len(digits)])

IsDigits(s) == s # <<>> /\ \A i \in 1..Len(s) : \E v \in 0..9 : DigitChars[v + 1] = s[i]

\* Decimal(text): None stands for the InvalidOperation it raises
StrToDecimal(text) ==
    LET neg == text # <<>> /\ text[1] = "-"
        body == IF neg THEN Tail(text) ELSE text
        dots == {i \in 1..Len(body) : body[i] = "."}
    IN IF dots = {}
       THEN IF IsDigits(body)
            THEN Some((IF neg THEN -1 ELSE 1) * 1000 * NumberOf(body))
            ELSE None
       ELSE LET p == CHOOSE i \in dots : TRUE
                int == SubSeq(body, 1, p - 1)
                frac == SubSeq(body, p + 1, Len(body))
            IN IF Cardinality(dots) = 1 /\ IsDigits(int) /\ IsDigits(frac) /\ Len(frac) = 3
               THEN Some((IF neg THEN -1 ELSE 1) * (1000 * NumberOf(int) + NumberOf(frac)))
               ELSE None

\* The content of the account file: json says whether json.load accepts it,
\* data is the 'balance' entry of the loaded object (None: no such key)
JsonFile(text) == [json |-> TRUE, data |-> Some(text)]
CorruptFile == [json |-> FALSE, data |-> None]

\* a save that never reaches the file
_save_account_dropped(bal, file, writable) == file

\* a failing save that leaves the file truncated
_save_account_truncating(bal, file, writable) ==
    IF writable THEN Some(JsonFile(DecimalToStr(bal))) ELSE Some(CorruptFile)

\* Account._save_account: the new content of the file; an OSError on open
\* (writable = FALSE) is caught and leaves the file as it was
_save_account(bal, file, writable) ==
    IF writable THEN Some(JsonFile(DecimalToStr(bal))) ELSE file

\* a load that writes its fallback value back
_load_account_rewrite(file, writable) ==
    IF file # None
    THEN LET content == Val(file)
             text == IF IsSet(content.data) THEN Val(content.data) ELSE <<"0">>
             parsed == IF content.json THEN StrToDecimal(text) ELSE None
         IN IF IsSet(parsed)
            THEN [balance |-> Val(parsed), file |-> file, saved |-> None]
            ELSE [balance |-> 0, file |-> _save_account(0, file, writable),
                  saved |-> Some(writable)]
    ELSE [balance |-> DEFAULT_BALANCE,
          file |-> _save_account(DEFAULT_BALANCE, file, writable),
          saved |-> Some(writable)]

\* Account.__init__ and Account._load_account: the balance and the file after it
_load_account(file, writable) ==
    IF file # None
    THEN LET content == Val(file)
             text == IF IsSet(content.data) THEN Val(content.data) ELSE <<"0">>
             parsed == IF content.json THEN StrToDecimal(text) ELSE None
         IN [balance |-> IF IsSet(parsed) THEN Val(parsed) ELSE 0, file |-> file,
             saved |-> None]
    ELSE [balance |-> DEFAULT_BALANCE,
          file |-> _save_account(DEFAULT_BALANCE, file, writable),
          saved |-> Some(writable)]

\* a lost update: the amount added to a balance read before the other
\* updates were written
update_balance_stale(bal, amount) == opening + amount

\* Account.update_balance: the new in-memory balance
update_balance(bal, amount) == bal + amount

get_balance == balance

\* a call of Account.update_balance: self.balance += amount, then
\* self._save_account(), whose failure is caught and printed
update_balance_call(amount, writable) ==
    /\ balance' = update_balance(balance, amount)
    /\ account_file' = _save_account(balance', account_file, writable)
    /\ account_log' = [updates |-> account_log.updates + 1, saved |-> Some(writable)]
    /\ ret' = [op |-> "update_balance", arg |-> amount]
    /\ UNCHANGED <<market_data, orders, tasks, opening, scan_log, cancelled, issued>>

\* Account(account_file) constructed anew over the file as it is now
Account_init(writable) ==
    LET account == _load_account(account_file, writable) IN
    /\ balance' = account.balance
    /\ account_file' = account.file
    /\ opening' = account.balance
    /\ account_log' = [account_log EXCEPT !.saved = account.saved]
    /\ ret' = [op |-> "__init__"]
    /\ UNCHANGED <<market_data, orders, tasks, scan_log, cancelled, issued>>

----------------------------------------------------------------------------
(* trading_system.py *)

DEFAULT_QUANTITY == 10000

\* the ids uuid4 draws from: one more than the orders the model places, so
\* that an id of no order always exists
OrderIds == 1..(MaxOrders + 1)

HasOrder(order_id) == \E i \in 1..Len(orders) : orders[i].order_id = order_id
IndexOf(order_id) == CHOOSE i \in 1..Len(orders) : orders[i].order_id = order_id
OrderOf(order_id) == orders[IndexOf(order_id)]

\* the whole series scanned, whatever the order's timestamp
future_data_all(order) == 1..Len(market_data)

\* self.market_data[order.timestamp:] on the sorted index: the positions of
\* the bars at or after the order's timestamp, in ascending order
future_data(order) ==
    {k \in 1..Len(market_data) : market_data[k].timestamp >= order.timestamp}

\* the loop's condition on one bar
Triggers(order, row) == is_executable(order, row.High) \/ is_executable(order, row.Low)

\* the loop running on after a trigger: the last triggering bar wins
FirstTrigger_last(order) ==
    LET hits == {k \in future_data(order) : Triggers(order, market_data[k])}
    IN IF hits = {} THEN 0 ELSE CHOOSE k \in hits : \A j \in hits : k >= j

\* the position of the bar at which the loop of _process_order breaks (0: none)
FirstTrigger(order) ==
    LET hits == {k \in future_data(order) : Triggers(order, market_data[k])}
    IN IF hits = {} THEN 0 ELSE CHOOSE k \in hits : \A j \in hits : k <= j

\* the two branches exchanged: the low for a BUY, the high for a SELL
ExecutePrice_swapped(order, row) == IF order.order_type = BUY THEN row.Low ELSE row.High

\* the price that fired the check handed on: the high if it fired, else the low
ExecutePrice_fired(order, row) ==
    IF is_executable(order, row.High) THEN row.High ELSE row.Low

\* the market price _process_order hands to Order.execute
ExecutePrice(order, row) == IF order.order_type = BUY THEN row.High ELSE row.Low

\* TradingSystem.__init__: Account(account_file), then the market data
Construct(file, writable, series) ==
    LET account == _load_account(file, writable) IN
    /\ balance = account.balance
    /\ account_file = account.file
    /\ opening = account.balance
    /\ market_data = series
    /\ orders = <<>>
    /\ tasks = {}
    /\ scan_log = <<>>
    /\ cancelled = {}
    /\ issued = <<>>
    /\ account_log = [updates |-> 0, saved |-> account.saved]
    /\ ret = [op |-> "__init__"]

\* an id generator that repeats itself
uuid4_repeated == CHOOSE i \in OrderIds : \A j \in OrderIds : i <= j

\* uuid.uuid4(): an id no order has yet.  The ids are interchangeable, so
\* the least unused one stands for whichever is drawn.
uuid4 == CHOOSE i \in OrderIds : ~HasOrder(i) /\ \A j \in OrderIds : ~HasOrder(j) => i <= j

\* a dict that puts a new key first
DictSet_front(dict, order_id, order) ==
    IF \E i \in 1..Len(dict) : dict[i].order_id = order_id
    THEN [i \in 1..Len(dict) |-> IF dict[i].order_id = order_id THEN order ELSE dict[i]]
    ELSE <<order>> \o dict

\* self.orders[order_id] = order on the insertion-ordered dict: a new key
\* goes last, a key already there keeps its place and takes the new value
DictSet(dict, order_id, order) ==
    IF \E i \in 1..Len(dict) : dict[i].order_id = order_id
    THEN [i \in 1..Len(dict) |-> IF dict[i].order_id = order_id THEN order ELSE dict[i]]
    ELSE Append(dict, order)

\* place_order awaiting the scan: the order is executed before the call
\* returns
place_order_blocking(timestamp, order_type, price, quantity, take_profit, stop_loss) ==
    LET order_id == uuid4
        order == NewOrder(order_id, timestamp, order_type, price,
                          quantity, take_profit, stop_loss)
        k == FirstTrigger(order)
    IN
    /\ orders' = DictSet(orders, order_id,
                          IF k = 0 THEN order
                          ELSE execute(order, ExecutePrice(order, market_data[k]),
                                       market_data[k].timestamp))
    /\ tasks' = tasks \cup {order_id}
    /\ issued' = Append(issued, order_id)
    /\ ret' = [op |-> "place_order", value |-> order_id]
    /\ UNCHANGED <<market_data, balance, account_file, opening, scan_log, cancelled,
                   account_log>>

\* place_order creating a scan task for every order of the registry again
place_order_rescan(timestamp, order_type, price, quantity, take_profit, stop_loss) ==
    LET order_id == uuid4 IN
    /\ orders' = DictSet(orders, order_id,
                          NewOrder(order_id, timestamp, order_type, price,
                                   quantity, take_profit, stop_loss))
    /\ tasks' = {orders[i].order_id : i \in 1..Len(orders)} \cup {order_id}
    /\ issued' = Append(issued, order_id)
    /\ ret' = [op |-> "place_order", value |-> order_id]
    /\ UNCHANGED <<market_data, balance, account_file, opening, scan_log, cancelled,
                   account_log>>

\* TradingSystem.place_order
place_order(timestamp, order_type, price, quantity, take_profit, stop_loss) ==
    LET order_id == uuid4 IN
    /\ orders' = DictSet(orders, order_id,
                          NewOrder(order_id, timestamp, order_type, price,
                                   quantity, take_profit, stop_loss))
    /\ tasks' = tasks \cup {order_id}
    /\ issued' = Append(issued, order_id)
    /\ ret' = [op |-> "place_order", value |-> order_id]
    /\ UNCHANGED <<market_data, balance, account_file, opening, scan_log, cancelled,
                   account_log>>

\* TradingSystem._process_order: the task of one order.  The coroutine holds
\* no await, so the event loop runs it from its first line to its last
\* without any other task or caller in between.
_process_order(order_id, writable) ==
    /\ order_id \in tasks
    /\ tasks' = tasks \ {order_id}
    /\ LET order == OrderOf(order_id)
           k == FirstTrigger(order)
       IN IF k = 0
          THEN /\ scan_log' = (order_id :> [bar |-> 0, execute_price |-> None,
                                             pnl |-> None, updates |-> 0]) @@ scan_log
               /\ UNCHANGED <<orders, balance, account_file, account_log>>
          ELSE LET row == market_data[k]
                   execute_price == ExecutePrice(order, row)
                   done == execute(order, execute_price, row.timestamp)
                   pnl == calculate_pnl(done)
               IN /\ orders' = [orders EXCEPT ![IndexOf(order_id)] = done]
                  /\ IF pnl # None
                     THEN /\ balance' = update_balance(balance, Val(pnl))
                          /\ account_file' = _save_account(balance', account_file, writable)
                          /\ account_log' = [updates |-> account_log.updates + 1,
                                              saved |-> Some(writable)]
                     ELSE UNCHANGED <<balance, account_file, account_log>>
                  /\ scan_log' = (order_id :> [bar |-> k,
                                               execute_price |-> Some(execute_price),
                                               pnl |-> pnl,
                                               updates |-> IF pnl # None THEN 1 ELSE 0])
                                   @@ scan_log
    /\ ret' = [op |-> "_process_order", value |-> order_id]
    /\ UNCHANGED <<market_data, opening, cancelled, issued>>

\* cancel_order without its status check
cancel_order_any(order_id) ==
    /\ IF HasOrder(order_id)
       THEN /\ orders' = [orders EXCEPT ![IndexOf(order_id)].status = CANCELLED]
            /\ cancelled' = cancelled \cup {order_id}
            /\ ret' = [op |-> "cancel_order", arg |-> order_id, value |-> TRUE]
       ELSE /\ orders' = orders
            /\ cancelled' = cancelled
            /\ ret' = [op |-> "cancel_order", arg |-> order_id, value |-> FALSE]
    /\ UNCHANGED <<market_data, balance, account_file, tasks, opening, scan_log, issued,
                   account_log>>

\* cancel_order refusing only the executed orders
cancel_order_not_executed(order_id) ==
    /\ IF HasOrder(order_id) /\ OrderOf(order_id).status # EXECUTED
       THEN /\ orders' = [orders EXCEPT ![IndexOf(order_id)].status = CANCELLED]
            /\ cancelled' = cancelled \cup {order_id}
            /\ ret' = [op |-> "cancel_order", arg |-> order_id, value |-> TRUE]
       ELSE /\ orders' = orders
            /\ cancelled' = cancelled
            /\ ret' = [op |-> "cancel_order", arg |-> order_id, value |-> FALSE]
    /\ UNCHANGED <<market_data, balance, account_file, tasks, opening, scan_log, issued,
                   account_log>>

\* TradingSystem.cancel_order
cancel_order(order_id) ==
    /\ IF HasOrder(order_id) /\ OrderOf(order_id).status = PENDING
       THEN /\ orders' = [orders EXCEPT ![IndexOf(order_id)].status = CANCELLED]
            /\ cancelled' = cancelled \cup {order_id}
            /\ ret' = [op |-> "cancel_order", arg |-> order_id, value |-> TRUE]
       ELSE /\ orders' = orders
            /\ cancelled' = cancelled
            /\ ret' = [op |-> "cancel_order", arg |-> order_id, value |-> FALSE]
    /\ UNCHANGED <<market_data, balance, account_file, tasks, opening, scan_log, issued,
                   account_log>>

\* a lookup that only knows the pending orders
get_order_status_pending(order_id) ==
    IF HasOrder(order_id) /\ OrderOf(order_id).status = PENDING
    THEN Some(OrderOf(order_id)) ELSE None

\* TradingSystem.get_order_status: self.orders.get(order_id)
get_order_status(order_id) ==
    IF HasOrder(order_id) THEN Some(OrderOf(order_id)) ELSE None

\* TradingSystem.get_all_orders: list(self.orders.values())
get_all_orders == orders

\* TradingSystem.get_account_balance
get_account_balance == get_balance

\* a call of one of the three getters: nothing but its result
Returns(op, arg, value) ==
    /\ ret' = [op |-> op, arg |-> arg, value |-> value]
    /\ UNCHANGED <<market_data, orders, balance, account_file, tasks, opening,
                   scan_log, cancelled, issued, account_log>>

----------------------------------------------------------------------------
(* The inputs *)

Optional(S) == {None} \cup {Some(v) : v \in S}

\* the bars of a series: a timestamp with a <<high, low>> pair
BarsOver(pairs) ==
    {[timestamp |-> t, High |-> hl[1], Low |-> hl[2]] : t \in 1..MaxTime, hl \in pairs}

\* the series _load_market_data leaves: sorted by timestamp, one bar a timestamp
SeriesOfLen(n, pairs) ==
    {s \in [1..n -> BarsOver(pairs)] :
        \A i \in 1..n, j \in 1..n : i < j => s[i].timestamp < s[j].timestamp}
SeriesOver(pairs) == UNION {SeriesOfLen(n, pairs) : n \in 0..MaxBars}

\* The engine under the requests of test_trading.py: its BUY (scenario 1) and
\* its SELL (scenario 2), each placed any number of times, before or after
\* the one bar of the series, which executes both (or over no bar at all);
\* the account file absent or holding a balance
Requests ==
    {[order_type |-> BUY, price |-> 148215,
      take_profit |-> Some(148300), stop_loss |-> Some(148150)],
     [order_type |-> SELL, price |-> 148215,
      take_profit |-> Some(148150), stop_loss |-> None]}
RequestTimes == {1, 3}
TestSeries == {<<>>, <<[timestamp |-> 2, High |-> 148320, Low |-> 148100]>>}
Files == {None, Some(JsonFile(DecimalToStr(50000000)))}

Init ==
    \E file \in Files, writable \in BOOLEAN, series \in TestSeries :
        Construct(file, writable, series)

PlaceOrder ==
    /\ Len(orders) < MaxOrders
    /\ \E timestamp \in RequestTimes, r \in Requests :
           place_order(timestamp, r.order_type, r.price, DEFAULT_QUANTITY,
                       r.take_profit, r.stop_loss)

ProcessOrder == \E order_id \in tasks, writable \in BOOLEAN : _process_order(order_id, writable)

\* cancel_order on the id of any order, or on an id of no order
CancelOrder ==
    \E order_id \in {orders[i].order_id : i \in 1..Len(orders)} \cup {uuid4} :
        cancel_order(order_id)

\* get_order_status on the id of any order, or on an id of no order
GetOrderStatus ==
    \E order_id \in {orders[i].order_id : i \in 1..Len(orders)} \cup {uuid4} :
        Returns("get_order_status", order_id, get_order_status(order_id))

GetAllOrders == Returns("get_all_orders", None, get_all_orders)

GetAccountBalance == Returns("get_account_balance", None, get_account_balance)

Next ==
    \/ PlaceOrder
    \/ ProcessOrder
    \/ CancelOrder
    \/ GetOrderStatus
    \/ GetAllOrders
    \/ GetAccountBalance

Spec == Init /\ [][Next]_vars

\* The scan of a single order: every order type, take-profit and stop-loss
\* setting and timestamp, over series of bars with a high at or above the low
EntryPrices == {148215}
Levels == {0, 148150, 148300}
ScanBarPrices == {100, 148100, 148320}
ScanBars == {hl \in ScanBarPrices \X ScanBarPrices : hl[2] <= hl[1]}

InitScan ==
    \E file \in Files, writable \in BOOLEAN, series \in SeriesOver(ScanBars) :
        Construct(file, writable, series)

PlaceScanOrder ==
    /\ orders = <<>>
    /\ \E timestamp \in 1..(MaxTime + 1), order_type \in OrderType, price \in EntryPrices,
          take_profit \in Optional(Levels), stop_loss \in Optional(Levels) :
           place_order(timestamp, order_type, price, DEFAULT_QUANTITY, take_profit, stop_loss)

NextScan == PlaceScanOrder \/ ProcessOrder \/ CancelOrder

SpecScan == InitScan /\ [][NextScan]_vars

\* The scan of a single order under fair scheduling.  The event loop runs
\* every task it holds once the caller yields to it (main.py sleeps after
\* place_order), so a created scan task is not left waiting forever.
LiveLevels == {148150}
LiveBarPrices == {100, 148320}
LiveBars == {hl \in LiveBarPrices \X LiveBarPrices : hl[2] <= hl[1]}

InitLive == \E series \in SeriesOver(LiveBars) : Construct(None, TRUE, series)

PlaceLiveOrder ==
    /\ orders = <<>>
    /\ \E timestamp \in 1..(MaxTime + 1), order_type \in OrderType, price \in EntryPrices,
          take_profit \in Optional(LiveLevels), stop_loss \in Optional(LiveLevels) :
           place_order(timestamp, order_type, price, DEFAULT_QUANTITY, take_profit, stop_loss)

NextLive == PlaceLiveOrder \/ ProcessOrder \/ CancelOrder

SpecLive == InitLive /\ [][NextLive]_vars /\ WF_vars(ProcessOrder)

\* Requests as a caller can make them: place_order takes any Decimal as
\* quantity, so a zero and a negative quantity are drawn beside the default
Quantities == {0 - DEFAULT_QUANTITY, 0, DEFAULT_QUANTITY}

PlaceRequest ==
    /\ orders = <<>>
    /\ \E r \in Requests, timestamp \in RequestTimes, quantity \in Quantities :
           place_order(timestamp, r.order_type, r.price, quantity, r.take_profit, r.stop_loss)

NextRequest == PlaceRequest \/ ProcessOrder \/ CancelOrder

SpecRequest == Init /\ [][NextRequest]_vars

\* The account alone: files of every kind the loader distinguishes (absent,
\* a saved balance, not JSON, JSON without a 'balance' entry, a 'balance'
\* that Decimal rejects), signed amounts, writes that succeed or fail, and a
\* fresh Account over the same file at any moment
MaxUpdates == 2

AccountFiles ==
    Files \cup {Some(CorruptFile), Some([json |-> TRUE, data |-> None]),
                Some(JsonFile(<<"1", "e", "x">>))}
Amounts == {1950000, 0 - 100000, 50, 0 - 50}

InitAccount ==
    \E file \in AccountFiles, writable \in BOOLEAN : Construct(file, writable, <<>>)

UpdateBalance ==
    /\ account_log.updates < MaxUpdates
    /\ \E amount \in Amounts, writable \in BOOLEAN : update_balance_call(amount, writable)

LoadAccount == \E writable \in BOOLEAN : Account_init(writable)

NextAccount == UpdateBalance \/ LoadAccount

SpecAccount == InitAccount /\ [][NextAccount]_vars

----------------------------------------------------------------------------
(* Properties of the engine *)

Executed(order_id) == HasOrder(order_id) /\ OrderOf(order_id).status = EXECUTED
Scanned(order_id) == order_id \in DOMAIN scan_log

RECURSIVE SumOfDeltas(_)
SumOfDeltas(ids) ==
    IF ids = {} THEN 0
    ELSE LET id == CHOOSE x \in ids : TRUE
         IN Val(scan_log[id].pnl) + SumOfDeltas(ids \ {id})

PlacedIds == {orders[i].order_id : i \in 1..Len(orders)}

\* every order placed so far has been scanned, and its scan has called
\* update_balance exactly once
EveryScanUpdatedOnce ==
    /\ Len(orders) >= 1
    /\ \A id \in PlacedIds : Scanned(id) /\ scan_log[id].updates = 1

\* C1: no lost updates.  Whenever each of the N orders placed has had its
\* scan call update_balance exactly once, in whatever order the scan tasks
\* ran and whatever the caller did in between, the in-memory balance is the
\* balance at construction plus the sum of the N amounts passed.
C1_NoLostUpdates ==
    EveryScanUpdatedOnce => balance = opening + SumOfDeltas(PlacedIds)

\* two orders with different deltas, both applied, the second placed only
\* after the first had run or both placed before either ran
C1_Witness ==
    /\ Len(orders) = 2
    /\ EveryScanUpdatedOnce
    /\ scan_log[1].pnl # scan_log[2].pnl
    /\ balance # opening + Val(scan_log[1].pnl)
    /\ balance # opening + Val(scan_log[2].pnl)

BothSet(order) == IsSet(order.executed_price) /\ IsSet(order.executed_time)
BothUnset(order) == order.executed_price = None /\ order.executed_time = None

\* C2: in every reachable state, every order of the registry has
\* executed_price and executed_time both set when its status is EXECUTED and
\* both unset when its status is PENDING or CANCELLED.
C2_ExecutedFieldsIffExecuted ==
    \A i \in 1..Len(orders) :
        IF orders[i].status = EXECUTED THEN BothSet(orders[i]) ELSE BothUnset(orders[i])

\* an executed order on which cancel_order was then tried, beside a cancelled
\* order whose scan has run
C2_Witness ==
    /\ ret.op = "cancel_order"
    /\ Executed(ret.arg)
    /\ \E id \in cancelled : Scanned(id) /\ OrderOf(id).status = CANCELLED

\* C3: the status of an order is monotonic.  No step takes an order whose
\* status is EXECUTED or CANCELLED back to PENDING, or out of the registry.
C3_StatusMonotonic ==
    [][\A id \in OrderIds :
          (HasOrder(id) /\ OrderOf(id).status # PENDING)
             => (HasOrder(id) /\ OrderOf(id).status # PENDING)']_vars

\* both ids are past PENDING, one by execution and one by cancellation, and
\* steps were taken after that
C3_Witness ==
    /\ \E id \in PlacedIds : OrderOf(id).status = EXECUTED
    /\ \E id \in PlacedIds : OrderOf(id).status = CANCELLED
    /\ tasks = {}
    /\ ret.op = "cancel_order"

\* the order as it was when placed
AsPlaced(order) ==
    [order EXCEPT !.status = PENDING, !.executed_price = None, !.executed_time = None]

\* C4: once cancel_order has returned True for an order, the order is never
\* EXECUTED, its executed fields stay unset, and its scan, whenever it runs
\* and whatever the bars, never calls update_balance.
C4_CancelPreventsExecution ==
    \A id \in cancelled :
        /\ HasOrder(id)
        /\ OrderOf(id).status # EXECUTED
        /\ BothUnset(OrderOf(id))
        /\ Scanned(id) => scan_log[id].updates = 0 /\ scan_log[id].bar = 0

\* the scan of a cancelled order has run over a series one bar of which
\* would have executed the order
C4_Witness ==
    \E id \in cancelled :
        /\ Scanned(id)
        /\ FirstTrigger(AsPlaced(OrderOf(id))) # 0

CancelCalled(id) == ret'.op = "cancel_order" /\ ret'.arg = id

EngineUnchanged ==
    /\ orders' = orders
    /\ balance' = balance
    /\ account_file' = account_file
    /\ tasks' = tasks
    /\ market_data' = market_data

\* C5: cancel_order on an id whose order is EXECUTED or CANCELLED, or that
\* is no id of the registry, returns False and changes neither an order nor
\* the account.
C5_CancelRefused ==
    [][\A id \in OrderIds :
          (CancelCalled(id) /\ ~(HasOrder(id) /\ OrderOf(id).status = PENDING))
             => (ret'.value = FALSE /\ EngineUnchanged)]_vars

\* cancel_order has returned False on an executed order
C5_Witness ==
    /\ ret.op = "cancel_order"
    /\ ret.value = FALSE
    /\ Executed(ret.arg)
    /\ balance # opening

\* C6: cancel_order(id) returns True exactly when id is in the registry with
\* status PENDING; it then sets that order's status to CANCELLED and changes
\* nothing else of that order, of the other orders or of the account.
C6_CancelResult ==
    [][\A id \in OrderIds :
          CancelCalled(id) =>
             /\ ret'.value = (HasOrder(id) /\ OrderOf(id).status = PENDING)
             /\ ret'.value =>
                   /\ orders' = [orders EXCEPT ![IndexOf(id)].status = CANCELLED]
                   /\ balance' = balance
                   /\ account_file' = account_file
                   /\ tasks' = tasks
                   /\ market_data' = market_data]_vars

\* cancel_order has returned True on one of two orders, the other executed
C6_Witness ==
    /\ ret.op = "cancel_order"
    /\ ret.value = TRUE
    /\ OrderOf(ret.arg).status = CANCELLED
    /\ \E id \in PlacedIds : id # ret.arg /\ Executed(id)

----------------------------------------------------------------------------
(* Properties of the scan *)

\* the bar at position k is at or after the order's timestamp and its high
\* or its low satisfies is_executable of the order as placed
TriggersAt(order, k) ==
    /\ market_data[k].timestamp >= order.timestamp
    /\ \/ is_executable(AsPlaced(order), market_data[k].High)
       \/ is_executable(AsPlaced(order), market_data[k].Low)

\* C7: first-trigger execution.  For an order that was never cancelled and
\* whose scan has run, if bar k is the first bar at or after the order's
\* timestamp whose high or low satisfies is_executable, the order is EXECUTED
\* at bar k: executed_time is that bar's timestamp, and the market price
\* handed to Order.execute is the bar's high for a BUY and its low for a SELL.
C7_FirstTriggerExecution ==
    \A id \in PlacedIds : \A k \in 1..Len(market_data) :
        (/\ Scanned(id)
         /\ id \notin cancelled
         /\ TriggersAt(OrderOf(id), k)
         /\ \A j \in 1..(k - 1) : ~TriggersAt(OrderOf(id), j))
        => /\ OrderOf(id).status = EXECUTED
           /\ OrderOf(id).executed_time = Some(market_data[k].timestamp)
           /\ scan_log[id].bar = k
           /\ scan_log[id].execute_price =
                 Some(IF OrderOf(id).order_type = BUY
                      THEN market_data[k].High ELSE market_data[k].Low)

\* an order executed at the second bar, the first bar being at or after its
\* timestamp and not triggering it while it would trigger at a later time
C7_Witness ==
    \E id \in PlacedIds :
        /\ Scanned(id)
        /\ id \notin cancelled
        /\ Len(market_data) = 2
        /\ market_data[1].timestamp >= OrderOf(id).timestamp
        /\ ~TriggersAt(OrderOf(id), 1)
        /\ TriggersAt(OrderOf(id), 2)
        /\ OrderOf(id).status = EXECUTED

\* the bar at which the scan of an executed order broke
BarOf(id) == market_data[scan_log[id].bar]
ExecutedByScan(id) == Scanned(id) /\ scan_log[id].bar # 0

FiredOnHigh(id) == is_executable(AsPlaced(OrderOf(id)), BarOf(id).High)
FiredOnLowOnly(id) ==
    /\ ~is_executable(AsPlaced(OrderOf(id)), BarOf(id).High)
    /\ is_executable(AsPlaced(OrderOf(id)), BarOf(id).Low)

\* C8 as stated: on a bar where is_executable(bar.high) is true, the market
\* price handed to Order.execute is bar.high, for BUY and SELL alike.
C8_HighBranchUsesHigh ==
    \A id \in PlacedIds :
        (ExecutedByScan(id) /\ FiredOnHigh(id))
           => scan_log[id].execute_price = Some(BarOf(id).High)

\* C8, amended: on a bar where is_executable(bar.high) is true, the market
\* price handed to Order.execute is bar.high for a BUY and bar.low for a
\* SELL, whichever of take-profit or stop-loss fired.
C8_HighBranchByType ==
    \A id \in PlacedIds :
        (ExecutedByScan(id) /\ FiredOnHigh(id))
           => scan_log[id].execute_price =
                 Some(IF OrderOf(id).order_type = BUY
                      THEN BarOf(id).High ELSE BarOf(id).Low)

\* a SELL whose stop-loss fired on the high of a bar with a lower low
C8_Witness ==
    \E id \in PlacedIds :
        /\ ExecutedByScan(id)
        /\ FiredOnHigh(id)
        /\ OrderOf(id).order_type = SELL
        /\ BarOf(id).Low < BarOf(id).High
        /\ OrderOf(id).status = EXECUTED

\* C9 as stated: on a bar where is_executable(bar.high) is false and
\* is_executable(bar.low) is true, the market price handed to Order.execute
\* is bar.low, for BUY and SELL alike.
C9_LowBranchUsesLow ==
    \A id \in PlacedIds :
        (ExecutedByScan(id) /\ FiredOnLowOnly(id))
           => scan_log[id].execute_price = Some(BarOf(id).Low)

\* C9, amended: on a bar where is_executable(bar.high) is false and
\* is_executable(bar.low) is true, the market price handed to Order.execute
\* is bar.low for a SELL and bar.high for a BUY.
C9_LowBranchByType ==
    \A id \in PlacedIds :
        (ExecutedByScan(id) /\ FiredOnLowOnly(id))
           => scan_log[id].execute_price =
                 Some(IF OrderOf(id).order_type = BUY
                      THEN BarOf(id).High ELSE BarOf(id).Low)

\* a BUY whose stop-loss fired on the low alone of a bar with a higher high
C9_Witness ==
    \E id \in PlacedIds :
        /\ ExecutedByScan(id)
        /\ FiredOnLowOnly(id)
        /\ OrderOf(id).order_type = BUY
        /\ BarOf(id).Low < BarOf(id).High
        /\ OrderOf(id).status = EXECUTED

\* scenario 1 of test_trading.py: opening balance 100000, one BUY at 148.215
\* with take-profit 148.300, stop-loss 148.150 and quantity 10000 placed at
\* time 1, one bar at time 2 with high 148.320 and low 148.100, the scan run
BuyScenario ==
    /\ opening = DEFAULT_BALANCE
    /\ market_data = <<[timestamp |-> 2, High |-> 148320, Low |-> 148100]>>
    /\ Len(orders) = 1
    /\ AsPlaced(orders[1]) =
          NewOrder(orders[1].order_id, 1, BUY, 148215, 10000, Some(148300), Some(148150))
    /\ Scanned(orders[1].order_id)
    /\ cancelled = {}

\* C10 as stated: in the scenario the order is EXECUTED at the bar's time
\* with recorded execution price 148.320, its pnl is 950 and the balance is
\* 100950.
C10_BuyExampleAsStated ==
    BuyScenario =>
        /\ orders[1].status = EXECUTED
        /\ orders[1].executed_time = Some(2)
        /\ orders[1].executed_price = Some(148320)
        /\ calculate_pnl(orders[1]) = Some(950000)
        /\ balance = 100950000

\* C10, amended: in the scenario the order is EXECUTED at the bar's time
\* with the bar's high 148.320 as market price, the recorded execution price
\* is 148.420 (the high plus half the spread), its pnl is
\* (148.420 - 148.215) * 10000 - 100 = 1950 and the balance is 101950.
C10_BuyExample ==
    BuyScenario =>
        /\ orders[1].status = EXECUTED
        /\ orders[1].executed_time = Some(2)
        /\ scan_log[orders[1].order_id].execute_price = Some(148320)
        /\ orders[1].executed_price = Some(148420)
        /\ calculate_pnl(orders[1]) = Some(1950000)
        /\ balance = 101950000

C10_Witness == BuyScenario /\ orders[1].status = EXECUTED /\ balance # opening

\* scenario 2 of test_trading.py: one SELL at 148.215 with take-profit
\* 148.150, no stop-loss and quantity 10000 placed at time 1, one bar at
\* time 2 with high 148.320 and low 148.100, the scan run
SellScenario ==
    /\ market_data = <<[timestamp |-> 2, High |-> 148320, Low |-> 148100]>>
    /\ Len(orders) = 1
    /\ AsPlaced(orders[1]) =
          NewOrder(orders[1].order_id, 1, SELL, 148215, 10000, Some(148150), None)
    /\ Scanned(orders[1].order_id)
    /\ cancelled = {}

\* C11 as stated: in the scenario the high check does not trigger, the low
\* check triggers, the order is EXECUTED with recorded execution price
\* 148.100 and its pnl is 1050.
C11_SellExampleAsStated ==
    SellScenario =>
        /\ ~is_executable(AsPlaced(orders[1]), 148320)
        /\ is_executable(AsPlaced(orders[1]), 148100)
        /\ orders[1].status = EXECUTED
        /\ orders[1].executed_price = Some(148100)
        /\ calculate_pnl(orders[1]) = Some(1050000)

\* C11, amended: in the scenario the high check does not trigger, the low
\* check triggers, the order is EXECUTED with the bar's low 148.100 as market
\* price, the recorded execution price is 148.000 (the low minus half the
\* spread) and its pnl is (148.215 - 148.000) * 10000 - 100 = 2050.
C11_SellExample ==
    SellScenario =>
        /\ ~is_executable(AsPlaced(orders[1]), 148320)
        /\ is_executable(AsPlaced(orders[1]), 148100)
        /\ orders[1].status = EXECUTED
        /\ scan_log[orders[1].order_id].execute_price = Some(148100)
        /\ orders[1].executed_price = Some(148000)
        /\ calculate_pnl(orders[1]) = Some(2050000)
        /\ balance = opening + 2050000

C11_Witness == SellScenario /\ orders[1].status = EXECUTED /\ orders[1].executed_time = Some(2)

----------------------------------------------------------------------------
(* Properties of Order *)

\* the pnl the specification gives an executed order
ReferencePnl(order) ==
    IF order.order_type = BUY
    THEN (Val(order.executed_price) - order.price) * order.quantity - COMMISSION
    ELSE (order.price - Val(order.executed_price)) * order.quantity - COMMISSION

\* C12: for every order whose status is EXECUTED, whatever its
\* executed_price, zero included, calculate_pnl returns a value, and the
\* value is (executed_price - requested_price) * quantity - COMMISSION for a
\* BUY and (requested_price - executed_price) * quantity - COMMISSION for a
\* SELL.
C12_PnlOfExecutedOrder ==
    \A i \in 1..Len(orders) :
        orders[i].status = EXECUTED
           => calculate_pnl(orders[i]) = Some(ReferencePnl(orders[i]))

\* the prices is_executable is asked about
CandidatePrices == ScanBarPrices \cup Levels \cup EntryPrices

\* C13: is_executable is false of every order whose status is EXECUTED or
\* CANCELLED, for every candidate price and every take-profit and stop-loss
\* setting.
C13_NotExecutableUnlessPending ==
    \A i \in 1..Len(orders) : \A p \in CandidatePrices :
        orders[i].status \in {EXECUTED, CANCELLED} => ~is_executable(orders[i], p)

\* an executed order, and a price at which the same order as placed is
\* executable
C13_Witness ==
    \E i \in 1..Len(orders) : \E p \in CandidatePrices :
        /\ orders[i].status = EXECUTED
        /\ is_executable(AsPlaced(orders[i]), p)

\* the trigger predicate of the specification, where a level is set when it
\* is not None
ReferenceExecutable(order, candidate) ==
    LET p == get_execution_price(order, candidate) IN
    IF order.order_type = BUY
    THEN \/ IsSet(order.take_profit) /\ p >= Val(order.take_profit)
         \/ IsSet(order.stop_loss) /\ p <= Val(order.stop_loss)
    ELSE \/ IsSet(order.take_profit) /\ p <= Val(order.take_profit)
         \/ IsSet(order.stop_loss) /\ p >= Val(order.stop_loss)

\* C14: for a PENDING order and every candidate price, is_executable equals
\* the reference predicate, for every take-profit and stop-loss value, zero
\* included.
C14_ExecutableMatchesReference ==
    \A i \in 1..Len(orders) : \A p \in CandidatePrices :
        orders[i].status = PENDING
           => (is_executable(orders[i], p) <=> ReferenceExecutable(orders[i], p))

----------------------------------------------------------------------------
(* Properties of the registry *)

\* C15: place_order rejects a request with a non-positive quantity, so
\* every order in the registry has quantity > 0.
C15_RegistryQuantitiesPositive ==
    \A i \in 1..Len(orders) : orders[i].quantity > 0

\* the ids place_order has returned so far
IssuedIds == {issued[n] : n \in 1..Len(issued)}

\* a step in which place_order returns id
PlaceReturns(id) == issued' # issued /\ ret'.op = "place_order" /\ ret'.value = id

\* C16: at the moment place_order returns, the new order is in the registry
\* under the returned id with status PENDING and unset executed fields, and
\* the account balance is unchanged; its scan is a task still to run, and
\* the scan of an order runs only in a later step than its placement.
C16_PlaceOrderReturnsBeforeScan ==
    [][\A id \in OrderIds :
          /\ PlaceReturns(id) =>
                /\ (get_order_status(id) # None)'
                /\ (Val(get_order_status(id)).status = PENDING)'
                /\ (BothUnset(Val(get_order_status(id))))'
                /\ get_account_balance' = get_account_balance
                /\ account_file' = account_file
                /\ id \in tasks'
                /\ ~Scanned(id)'
          /\ (~Scanned(id) /\ Scanned(id)') =>
                /\ id \in IssuedIds
                /\ issued' = issued
                /\ ret'.op = "_process_order"]_vars

\* place_order has just returned an order that a bar of the series triggers
C16_Witness ==
    /\ ret.op = "place_order"
    /\ HasOrder(ret.value)
    /\ FirstTrigger(OrderOf(ret.value)) # 0
    /\ ret.value \in tasks

\* C17: every place_order call returns an id different from every id
\* returned before; the placement adds one order and leaves every order
\* already in the registry as it was, so the registry holds as many orders
\* as there were place_order calls.
C17_OrderIdsUnique ==
    [][\A id \in OrderIds :
          PlaceReturns(id) =>
             /\ id \notin IssuedIds
             /\ ~HasOrder(id)
             /\ Len(orders') = Len(orders) + 1
             /\ \A i \in 1..Len(orders) : orders'[i] = orders[i]
             /\ Len(orders') = Len(issued')]_vars

\* two placements, the second just returned
C17_Witness ==
    /\ ret.op = "place_order"
    /\ Len(issued) >= 2
    /\ Len(orders) = Len(issued)
    /\ issued[1] # issued[2]

\* C18: once an id is in the registry it stays there in every later state,
\* whether the order is executed, cancelled or never triggers;
\* get_order_status(id) returns the order of that id for exactly the ids
\* place_order has returned, and absent for every other id.
C18_OrdersNeverRemoved ==
    /\ [](\A id \in OrderIds :
             LET found == get_order_status(id) IN
             /\ found # None <=> id \in IssuedIds
             /\ found # None => Val(found).order_id = id
             /\ (ret.op = "get_order_status" /\ ret.arg = id) => ret.value = found)
    /\ [][\A id \in OrderIds : HasOrder(id) => HasOrder(id)']_vars

\* get_order_status has just returned an order that was executed
C18_Witness ==
    /\ ret.op = "get_order_status"
    /\ ret.value # None
    /\ Val(ret.value).status = EXECUTED
    /\ Val(ret.value).order_id \in IssuedIds

\* C19: get_all_orders returns the registered orders in the order in which
\* place_order inserted them, and no step, executing and cancelling
\* included, changes the position of an order in that sequence.
C19_InsertionOrder ==
    [][/\ (Len(get_all_orders) = Len(issued))'
       /\ (\A n \in 1..Len(issued) : get_all_orders[n].order_id = issued[n])'
       /\ \A n \in 1..Len(get_all_orders) :
             get_all_orders'[n].order_id = get_all_orders[n].order_id
       /\ ret'.op = "get_all_orders" => ret'.value = get_all_orders]_vars

\* get_all_orders has just returned two orders, the first of them executed
\* or cancelled after the second was placed
C19_Witness ==
    /\ ret.op = "get_all_orders"
    /\ Len(ret.value) = 2
    /\ ret.value[1].status # PENDING
    /\ ret.value[2].status = PENDING
    /\ ret.value[1].order_id = issued[1]
    /\ ret.value[2].order_id = issued[2]

\* the scan of id runs in this step
ScanRuns(id) == id \in tasks /\ ~Scanned(id) /\ Scanned(id)'

\* no bar at or after the order's timestamp triggers it
NoTriggeringBar(order) == ~\E k \in 1..Len(market_data) : TriggersAt(order, k)

\* C20: the scan of a PENDING order that finds no triggering bar at or after
\* the order's timestamp ends having changed nothing: the order is still
\* PENDING with unset executed fields, the registry, the balance and the
\* account file are untouched, and the task is over; this includes a series
\* with no bar at or after the order's timestamp.
C20_ScanWithoutTrigger ==
    [][\A id \in OrderIds :
          (/\ ScanRuns(id)
           /\ OrderOf(id).status = PENDING
           /\ NoTriggeringBar(OrderOf(id))) =>
             /\ orders' = orders
             /\ (OrderOf(id).status = PENDING /\ BothUnset(OrderOf(id)))'
             /\ get_account_balance' = get_account_balance
             /\ account_file' = account_file
             /\ scan_log'[id].updates = 0
             /\ id \notin tasks']_vars

\* a scanned order still pending, all bars of the series before its
\* timestamp, one of them at a price that triggers the order
C20_Witness ==
    \E i \in 1..Len(orders) :
        /\ Scanned(orders[i].order_id)
        /\ orders[i].status = PENDING
        /\ orders[i].order_id \notin cancelled
        /\ Len(market_data) >= 1
        /\ \A k \in 1..Len(market_data) : market_data[k].timestamp < orders[i].timestamp
        /\ \E k \in 1..Len(market_data) : Triggers(orders[i], market_data[k])

----------------------------------------------------------------------------
(* Liveness of the scan *)

\* some bar at or after the order's timestamp triggers the order as placed
HasTriggeringBar(order) == \E k \in 1..Len(market_data) : TriggersAt(order, k)

\* the order is executed and its pnl is in the balance
ExecutedAndApplied(id) ==
    /\ Executed(id)
    /\ Scanned(id)
    /\ scan_log[id].updates = 1
    /\ balance = opening + ReferencePnl(OrderOf(id))

\* C21: if an order is never cancelled and the series holds a bar at or
\* after the order's timestamp whose high or low satisfies is_executable,
\* then under fair scheduling of its scan task the order is eventually
\* EXECUTED and its pnl is eventually applied to the account.
C21_EventuallyExecutedAndApplied ==
    \A id \in OrderIds :
        (HasOrder(id) /\ HasTriggeringBar(OrderOf(id)))
            ~> (id \in cancelled \/ ExecutedAndApplied(id))

----------------------------------------------------------------------------
(* Properties of Order, continued *)

\* the order of id goes from PENDING to EXECUTED in this step
ExecutedInStep(id) ==
    /\ HasOrder(id)
    /\ OrderOf(id).status = PENDING
    /\ (OrderOf(id).status = EXECUTED)'

\* C22: execute(market_price, timestamp) sets executed_price to the market
\* price plus 0.1 for a BUY and minus 0.1 for a SELL, executed_time to the
\* timestamp and status to EXECUTED; it leaves every other field of the
\* order and every other order as they were, and the balance moves only by
\* the pnl that _process_order hands to update_balance afterwards.
C22_ExecuteFrame ==
    [][\A id \in OrderIds :
          ExecutedInStep(id) =>
             LET o == OrderOf(id)
                 m == Val(scan_log'[id].execute_price)
                 t == market_data[scan_log'[id].bar].timestamp
                 pnl == scan_log'[id].pnl
             IN /\ (OrderOf(id))' =
                      [o EXCEPT !.executed_price =
                                    Some(IF o.order_type = BUY THEN m + 100 ELSE m - 100),
                                !.executed_time = Some(t),
                                !.status = EXECUTED]
                /\ Len(orders') = Len(orders)
                /\ \A i \in 1..Len(orders) :
                      orders[i].order_id # id => orders'[i] = orders[i]
                /\ balance' = IF pnl = None THEN balance ELSE balance + Val(pnl)]_vars

\* an order has just been executed beside another order of the registry
C22_Witness ==
    /\ ret.op = "_process_order"
    /\ Executed(ret.value)
    /\ scan_log[ret.value].bar # 0
    /\ Len(orders) = 2

\* C23: get_execution_price(m) is m + 0.1 for every BUY order and m - 0.1
\* for every SELL order, for every market price m, with the same spread of
\* 0.2 for all orders.
C23_ExecutionPrice ==
    /\ SPREAD = 200
    /\ \A i \in 1..Len(orders) : \A m \in CandidatePrices :
          get_execution_price(orders[i], m) =
              IF orders[i].order_type = BUY THEN m + 100 ELSE m - 100

\* an executed SELL order whose recorded price is the bar's low minus 0.1
C23_Witness ==
    \E i \in 1..Len(orders) :
        /\ orders[i].order_type = SELL
        /\ orders[i].status = EXECUTED
        /\ orders[i].executed_price =
              Some(Val(scan_log[orders[i].order_id].execute_price) - 100)

\* C24: calculate_pnl returns None for every order whose status is PENDING
\* or CANCELLED, whatever its executed_price, and the scan of such an order
\* has made no update of the balance.
C24_NoPnlUnlessExecuted ==
    \A i \in 1..Len(orders) :
        orders[i].status \in {PENDING, CANCELLED} =>
           /\ calculate_pnl(orders[i]) = None
           /\ \A p \in CandidatePrices :
                 calculate_pnl([orders[i] EXCEPT !.executed_price = Some(p)]) = None
           /\ Scanned(orders[i].order_id) => scan_log[orders[i].order_id].updates = 0

\* a cancelled order whose scan has run over a bar that triggers the order
\* as placed
C24_Witness ==
    \E i \in 1..Len(orders) :
        /\ orders[i].status = CANCELLED
        /\ Scanned(orders[i].order_id)
        /\ HasTriggeringBar(orders[i])
        /\ balance = opening

----------------------------------------------------------------------------
(* Properties of Account *)

\* the balance the account file holds (None: no file, or none to be read)
Persisted ==
    IF account_file # None /\ Val(account_file).json /\ IsSet(Val(account_file).data)
    THEN StrToDecimal(Val(Val(account_file).data))
    ELSE None

\* update_balance runs in this step
UpdateStep == ret'.op = "update_balance" /\ account_log'.updates = account_log.updates + 1

\* a fresh Account is constructed over the file in this step
LoadStep == ret'.op = "__init__" /\ account_log'.updates = account_log.updates

\* C25: update_balance(delta) sets the in-memory balance to the old balance
\* plus delta and saves it before it returns: whenever the write succeeds,
\* the balance in the file equals the balance in memory when the call is
\* over, after any sequence of calls.
C25_UpdateAddsAndPersists ==
    [][UpdateStep =>
          /\ balance' = balance + ret'.arg
          /\ account_log'.saved = Some(TRUE) => Persisted' = Some(balance')]_vars

\* two updates made, the second written
C25_Witness ==
    /\ ret.op = "update_balance"
    /\ account_log.updates = 2
    /\ account_log.saved = Some(TRUE)
    /\ Persisted = Some(balance)
    /\ balance # opening

\* C26: saving a balance and then constructing a fresh Account over the
\* same file yields the same balance, for every balance.
C26_SaveLoadRoundTrip ==
    [][/\ \A writable \in BOOLEAN :
             _load_account(_save_account(balance, account_file, TRUE), writable).balance
                = balance
       /\ (LoadStep /\ account_log.saved = Some(TRUE)) =>
             /\ balance' = balance
             /\ account_file' = account_file]_vars

\* a negative balance below one unit, loaded back from the file
C26_Witness ==
    /\ ret.op = "__init__"
    /\ account_log.updates >= 1
    /\ balance < 0
    /\ balance > 0 - 1000
    /\ Persisted = Some(balance)

C28_CorruptStorageZero ==
    [][(LoadStep /\ account_file # None /\ Persisted = None) =>
          /\ balance' = 0
          /\ account_file' = account_file
          /\ account_log'.saved = None]_vars

\* an Account that had a balance other than zero, constructed anew over a
\* file that is not JSON
C28_Witness ==
    /\ ret.op = "__init__"
    /\ account_file = Some(CorruptFile)
    /\ account_log.updates >= 1
    /\ balance = 0

----------------------------------------------------------------------------
(* Independence of the scheduling *)

\* what the scan makes of an order as placed, from the series alone
ScanOutcome(order) ==
    LET k == FirstTrigger(order) IN
    IF k = 0 THEN order
    ELSE execute(order, ExecutePrice(order, market_data[k]), market_data[k].timestamp)

\* the pnl the scans of the first n orders hand to update_balance
RECURSIVE OutcomePnl(_)
OutcomePnl(n) ==
    IF n = 0 THEN 0
    ELSE LET pnl == calculate_pnl(ScanOutcome(AsPlaced(orders[n])))
         IN OutcomePnl(n - 1) + (IF pnl = None THEN 0 ELSE Val(pnl))

\* C30: for the orders placed and the price series, once every scan task
\* has run (no order cancelled), the status, executed_price and
\* executed_time of every order and the balance are what the series alone
\* determines, whatever the order in which the scan tasks ran.
C30_OrderIndependence ==
    (tasks = {} /\ cancelled = {}) =>
        /\ \A i \in 1..Len(orders) : orders[i] = ScanOutcome(AsPlaced(orders[i]))
        /\ balance = opening + OutcomePnl(Len(orders))

\* two executed orders with different pnl, the first placed scanned last
C30_Witness ==
    /\ tasks = {}
    /\ cancelled = {}
    /\ Len(orders) = 2
    /\ orders[1].status = EXECUTED
    /\ orders[2].status = EXECUTED
    /\ calculate_pnl(orders[1]) # calculate_pnl(orders[2])
    /\ ret.op = "_process_order"
    /\ ret.value = orders[1].order_id

----------------------------------------------------------------------------
(* The ledger and the registry over whole behaviours *)

\* the sum of calculate_pnl() over the EXECUTED orders among the first n of
\* the registry; an order whose calculate_pnl() is None adds nothing
RECURSIVE ExecutedPnl(_)
ExecutedPnl(n) ==
    IF n = 0 THEN 0
    ELSE LET pnl == IF orders[n].status = EXECUTED THEN calculate_pnl(orders[n]) ELSE None
         IN ExecutedPnl(n - 1) + (IF pnl = None THEN 0 ELSE Val(pnl))

\* C31: in every state the in-memory balance is the balance at construction
\* plus the sum of calculate_pnl() over the EXECUTED orders of the registry,
\* and place_order, cancel_order, get_order_status, get_all_orders and
\* get_account_balance never change the balance.
C31_LedgerAccounting ==
    /\ [](balance = opening + ExecutedPnl(Len(orders)))
    /\ [][ret'.op # "_process_order" => balance' = balance /\ account_file' = account_file]_vars

\* get_account_balance has just returned the balance of a registry with one
\* executed order and one that is not
C31_Witness ==
    /\ ret.op = "get_account_balance"
    /\ ret.value = balance
    /\ Len(orders) = 2
    /\ orders[1].status # EXECUTED
    /\ orders[2].status = EXECUTED
    /\ balance # opening

\* the scans that have called update_balance
UpdatingScans == {id \in DOMAIN scan_log : scan_log[id].updates = 1}

\* C32: once an order is EXECUTED its scan is over, the order and the record
\* of its scan never change again, and update_balance is called at most once
\* per order, by the scan that executed it.
C32_ExecutedAtMostOnce ==
    /\ [](/\ \A id \in PlacedIds :
                /\ Executed(id) => id \notin tasks /\ Scanned(id)
                /\ Scanned(id) =>
                      /\ id \notin tasks
                      /\ scan_log[id].updates <= 1
                      /\ scan_log[id].updates = 1 => Executed(id)
          /\ account_log.updates = Cardinality(UpdatingScans))
    /\ [][/\ \A i \in 1..Len(orders) :
                orders[i].status = EXECUTED => orders'[i] = orders[i]
          /\ \A id \in DOMAIN scan_log : scan_log'[id] = scan_log[id]
          /\ account_log'.updates - account_log.updates \in {0, 1}]_vars

\* an executed order, and after its execution a second order placed,
\* scanned and executed as well
C32_Witness ==
    /\ Len(orders) = 2
    /\ orders[1].status = EXECUTED
    /\ orders[2].status = EXECUTED
    /\ ret.op = "_process_order"
    /\ ret.value = orders[2].order_id
    /\ account_log.updates = 2
    /\ tasks = {}

\* C33: every EXECUTED order has as executed_time the timestamp of a bar of
\* the series at or after the order's timestamp, the first such bar that
\* triggers it; a bar before the order's timestamp never executes it, even
\* when it satisfies the trigger.
C33_OnlyBarsFromTimestamp ==
    \A i \in 1..Len(orders) :
        /\ orders[i].status = EXECUTED =>
              \E k \in 1..Len(market_data) :
                 /\ orders[i].executed_time = Some(market_data[k].timestamp)
                 /\ market_data[k].timestamp >= orders[i].timestamp
                 /\ TriggersAt(orders[i], k)
                 /\ \A j \in 1..(k - 1) : ~TriggersAt(orders[i], j)
        /\ (\A k \in 1..Len(market_data) :
               Triggers(AsPlaced(orders[i]), market_data[k])
                  => market_data[k].timestamp < orders[i].timestamp)
              => orders[i].status # EXECUTED

\* an order executed at a bar at or after its timestamp, an earlier bar
\* before its timestamp satisfying the trigger as well
C33_Witness ==
    \E i \in 1..Len(orders) : \E j, k \in 1..Len(market_data) :
        /\ orders[i].status = EXECUTED
        /\ orders[i].executed_time = Some(market_data[k].timestamp)
        /\ market_data[j].timestamp < orders[i].timestamp
        /\ Triggers(AsPlaced(orders[i]), market_data[j])

\* C34: an order placed with neither take_profit nor stop_loss is never
\* executed: whatever the series and the interleaving it is PENDING or
\* CANCELLED with unset executed fields, and its scan never changes the
\* balance.
C34_NoLevelsNeverExecuted ==
    \A i \in 1..Len(orders) :
        (orders[i].take_profit = None /\ orders[i].stop_loss = None) =>
           /\ orders[i].status \in {PENDING, CANCELLED}
           /\ BothUnset(orders[i])
           /\ Scanned(orders[i].order_id) =>
                 /\ scan_log[orders[i].order_id].bar = 0
                 /\ scan_log[orders[i].order_id].updates = 0
           /\ balance = opening

\* an order without levels, still pending after its scan has run over bars
\* at or after its timestamp
C34_Witness ==
    \E i \in 1..Len(orders) :
        /\ orders[i].take_profit = None
        /\ orders[i].stop_loss = None
        /\ Scanned(orders[i].order_id)
        /\ orders[i].status = PENDING
        /\ future_data(orders[i]) # {}

====
